---- MODULE Spec2Model ----
(***************************************************************************)
(* zeus2polaris: conversion of one ZEUS-MP frame (flat arrays of doubles   *)
(* on a spherical grid with ghost cells) into a POLARIS grid file.         *)
(*                                                                         *)
(* Doubles are modelled by the integer-valued doubles 0 .. 2^20-1; Python  *)
(* ints and floats are kept apart (a value is a record [t, v]) because     *)
(* str() and struct.pack() treat them differently.  Arrays are 0-based in  *)
(* the source; a 1-D array is a TLA+ sequence (element i of the source is  *)
(* element i+1 here) and a 3-D array is a record [shape, at] whose at maps *)
(* 0-based index triples to values.                                        *)
(***************************************************************************)
EXTENDS Integers, Sequences, FiniteSets, TLC

(* ---------------------------------------------------------------- bounds *)

\* physical cells per axis of the input grids: 1 .. MaxCells
MaxCells == 3
\* read_data on synthetic buffers: 1-D lengths 0 .. MaxN, margins 0 .. MaxM
MaxN == 6
MaxM == 2
\* read_data on synthetic volumes: every padded axis is 2m+1 .. 2m+MaxInner
MaxInner == 2

(* ------------------------------------------------------- program constants *)

nghost == 3
id_grid == 30
IDs == <<28, 29>>
f_r == 0
f_ph == 0
f_th == 0

(* ------------------------------------------------------------ Python values *)

PyInt(n) == [t |-> "int", v |-> n]
PyFloat(n) == [t |-> "float", v |-> n]
\* The empty string '', the only string zeus2polaris hands to write2grid.
PyEmptyStr == [t |-> "str", v |-> 0]

Max2(a, b) == IF a >= b THEN a ELSE b
Min2(a, b) == IF a <= b THEN a ELSE b

\* One bound of a Python slice over a sequence of length n: a negative bound
\* counts from the end, and the result is clipped to 0 .. n.
SliceBound(b, n) == IF b < 0 THEN Max2(b + n, 0) ELSE Min2(b, n)

\* data[start:stop] for a 1-D array.
PySlice(data, start, stop) ==
  LET n == Len(data)
      lo == SliceBound(start, n)
      hi == SliceBound(stop, n)
  IN  IF hi <= lo THEN << >> ELSE [p \in 1..(hi - lo) |-> data[lo + p]]

(* ------------------------------------------------------------------ numpy *)

Prod3(s) == s[1] * s[2] * s[3]

Idx3(s) == { <<a, b, c>> : a \in 0..(s[1]-1), b \in 0..(s[2]-1), c \in 0..(s[3]-1) }

\* data.reshape(shape, order='F'): the first axis varies fastest.
ReshapeF(data, shape) ==
  [shape |-> shape,
   at |-> [x \in Idx3(shape) |->
             data[1 + x[1] + x[2] * shape[1] + x[3] * shape[1] * shape[2]]]]

\* The length of the slice [m:-m] of an axis of n elements.
TrimLen(n, m) == Max2(SliceBound(0 - m, n) - SliceBound(m, n), 0)

\* data[m:-m, m:-m, m:-m]
Trim3(arr, m) ==
  LET s == <<TrimLen(arr.shape[1], m), TrimLen(arr.shape[2], m), TrimLen(arr.shape[3], m)>>
  IN  [shape |-> s,
       at |-> [x \in Idx3(s) |->
                 arr.at[<<x[1] + SliceBound(m, arr.shape[1]),
                          x[2] + SliceBound(m, arr.shape[2]),
                          x[3] + SliceBound(m, arr.shape[3])>>]]]

\* A plausible slip: the axis swap left out.
SwapAxes12Omitted(arr) == arr

\* np.swapaxes(data, 1, 2)
SwapAxes12(arr) ==
  LET s == <<arr.shape[1], arr.shape[3], arr.shape[2]>>
  IN  [shape |-> s, at |-> [x \in Idx3(s) |-> arr.at[<<x[1], x[3], x[2]>>]]]

\* np.ravel(data) of a 3-D array: row-major, the last axis varies fastest.
Ravel3(arr) ==
  LET B == arr.shape[2]
      C == arr.shape[3]
  IN  [p \in 1..Prod3(arr.shape) |->
         arr.at[<<(p - 1) \div (B * C), ((p - 1) \div C) % B, (p - 1) % C>>]]

\* An optional argument: None, or a one-element sequence holding its value.
None == << >>
Some(x) == <<x>>

\* read_data after the file has been found and read into data.  shape is None
\* or a triple, trim_ghosts is None or Some(m); the result is [err, val].
read_data(data, shape, unshape, trim_ghosts) ==
  IF trim_ghosts = None
  THEN [err |-> "none", val |-> data]
  ELSE LET m == trim_ghosts[1]
       IN  IF shape = None
           THEN [err |-> "none", val |-> PySlice(data, m, 0 - m)]
           ELSE IF Prod3(shape) # Len(data)
                THEN [err |-> "ValueError(reshape)", val |-> << >>]
                ELSE LET t == Trim3(ReshapeF(data, shape), m)
                     IN  [err |-> "none",
                          val |-> IF unshape THEN Ravel3(SwapAxes12(t)) ELSE t]

(* --------------------------------------------------------------- write2grid *)

\* The decimal digits of a natural number, most significant first.
RECURSIVE Digits(_)
Digits(n) ==
  IF n < 10 THEN <<n>> ELSE Append(Digits(n \div 10), n % 10)

DigitChar(d) == <<"0", "1", "2", "3", "4", "5", "6", "7", "8", "9">>[d + 1]

DigitChars(n) == [p \in 1..Len(Digits(n)) |-> DigitChar(Digits(n)[p])]

\* str(var): an int prints its digits, an integer-valued double below 1e16
\* prints its digits followed by ".0", the empty string prints nothing.
Str(var) ==
  CASE var.t = "int" -> DigitChars(var.v)
    [] var.t = "float" -> DigitChars(var.v) \o <<".", "0">>
    [] OTHER -> << >>

Pow2(e) == 2 ^ e

\* floor(log2 v) for v >= 1
RECURSIVE Log2(_)
Log2(v) == IF v < 2 THEN 0 ELSE 1 + Log2(v \div 2)

\* struct.pack("H", v): two bytes, native (little-endian) order.
PackH(v) == <<v % 256, v \div 256>>

\* struct.pack("d", v) for an integer v in 0 .. 2^20-1: the IEEE 754 binary64
\* pattern (sign 0, 11 exponent bits, 52 fraction bits of which only the top
\* 20 can be set), least significant byte first.
PackD(v) ==
  IF v = 0
  THEN <<0, 0, 0, 0, 0, 0, 0, 0>>
  ELSE LET e == Log2(v)
           biased == 1023 + e
           frac20 == (v - Pow2(e)) * Pow2(20 - e)
       IN  <<0, 0, 0, 0,
             frac20 % 256,
             (frac20 \div 256) % 256,
             (biased % 16) * 16 + frac20 \div 65536,
             biased \div 16>>

\* struct.pack(dtype, var): [err, out]
Pack(dtype, var) ==
  IF var.t = "str"
  THEN [err |-> "struct.error", out |-> << >>]
  ELSE IF dtype = "H"
       THEN IF var.t = "int" /\ var.v >= 0 /\ var.v <= 65535
            THEN [err |-> "none", out |-> PackH(var.v)]
            ELSE [err |-> "struct.error", out |-> << >>]
       ELSE [err |-> "none", out |-> PackD(var.v)]

\* A plausible slip: the separator after a token left out.
SeparatorOmitted(endl) == << >>

\* What the ascii branch writes after str(var).
Separator(endl) == IF endl THEN <<"\n">> ELSE <<" ">>

\* write2grid(file_, format_, dtype, var, endl): what is written, [err, out].
\* A format_ that is neither 'binary' nor 'ascii' writes nothing.
write2grid(format_, dtype, var, endl) ==
  CASE format_ = "binary" -> Pack(dtype, var)
    [] format_ = "ascii" -> [err |-> "none", out |-> Str(var) \o Separator(endl)]
    [] OTHER -> [err |-> "none", out |-> << >>]

\* One write2grid call of zeus2polaris, with the source line it is made on.
WCall(line, format_, dtype, var, endl) ==
  [line |-> line, format_ |-> format_, dtype |-> dtype, var |-> var, endl |-> endl]

\* A run of write2grid calls in order: stops at the first that raises.
\* acc is [err, out, calls]: the error, the text written, the calls that returned.
RECURSIVE write_all(_, _)
write_all(cs, acc) ==
  IF cs = << >>
  THEN acc
  ELSE LET c == Head(cs)
           w == write2grid(c.format_, c.dtype, c.var, c.endl)
       IN  IF w.err # "none"
           THEN [acc EXCEPT !.err = w.err]
           ELSE write_all(Tail(cs),
                          [err |-> "none", out |-> acc.out \o w.out,
                           calls |-> Append(acc.calls, c)])

(* ------------------------------------------------------------------ state *)

VARIABLES
  axis_len,     \* the input: element counts of z_x1ap, z_x2ap, z_x3ap
  qmatch,       \* the input: the o_* files hold prod(shape) elements
  grid_format,  \* argument of the running call of zeus2polaris
  pc,           \* position of zeus2polaris
  k,            \* index of the read, or of the loop, pc is at
  r_e, th_e, ph_e, rho,   \* locals of zeus2polaris
  file,         \* the output handle: "none", "open" or "closed"
  disk,         \* the output files <name>.dat and <name>.txt
  calls,        \* the write2grid calls of this run that returned
  err,          \* the exception that ended this run
  buf, arg_shape, arg_unshape, arg_trim, result, rpc
                \* read_data applied to a synthetic buffer

zvars == <<axis_len, qmatch, grid_format, pc, k, r_e, th_e, ph_e, rho, file,
           disk, calls, err>>
rvars == <<buf, arg_shape, arg_unshape, arg_trim, result, rpc>>
vars == <<zvars, rvars>>

Formats == {"binary", "ascii", "hdf5"}

\* The six coordinate files and the seven quantity files, in the order read.
CoordFiles == <<"z_x1ap", "z_x2ap", "z_x3ap", "z_x1bp", "z_x2bp", "z_x3bp">>
QuantFiles == <<"o_d__", "o_v1_", "o_v2_", "o_v3_", "o_b1_", "o_b2_", "o_b3_">>

\* np.fromfile of a coordinate file of n doubles: strictly increasing edges.
CoordData(n) == [p \in 1..n |-> 2 * p + 1]

\* np.fromfile of a quantity file of n doubles.
QuantData(n) == [p \in 1..n |-> 100 * (1 + (p % 3))]

\* The element count of coordinate file number j (1..6): the centre files
\* z_x?bp are as long as the edge files z_x?ap.
CoordLen(j) == axis_len[((j - 1) % 3) + 1]

n_r == Len(r_e)
n_th == Len(th_e)
n_ph == Len(ph_e)
n_cells == n_r * n_th * n_ph
shape == <<n_r + 2 * nghost, n_ph + 2 * nghost, n_th + 2 * nghost>>

\* The element count of every quantity file.
QuantLen == IF qmatch THEN Prod3(shape) ELSE Prod3(shape) + 1

NoFile == [exists |-> FALSE, data |-> << >>, sealed |-> FALSE]

ZInit ==
  /\ axis_len \in [1..3 -> (2 * nghost + 1)..(2 * nghost + MaxCells)]
  /\ qmatch \in BOOLEAN
  /\ grid_format = "none"
  /\ pc = "idle"
  /\ k = 0
  /\ r_e = << >> /\ th_e = << >> /\ ph_e = << >> /\ rho = << >>
  /\ file = "none"
  /\ disk = [dat |-> NoFile, txt |-> NoFile]
  /\ calls = << >>
  /\ err = "none"

\* An exception leaves zeus2polaris: nothing catches it, nothing is cleaned up.
Raise(e) ==
  /\ pc' = "failed"
  /\ err' = e
  /\ UNCHANGED <<axis_len, qmatch, grid_format, k, r_e, th_e, ph_e, rho, file,
                 disk, calls, rvars>>

\* zeus2polaris(nframe, output_grid, verbose, grid_format) is called.
Call(fmt) ==
  /\ pc \in {"idle", "done", "failed"}
  /\ grid_format' = fmt
  /\ pc' = "read_coords"
  /\ k' = 1
  /\ r_e' = << >> /\ th_e' = << >> /\ ph_e' = << >> /\ rho' = << >>
  /\ file' = "none"
  /\ calls' = << >>
  /\ err' = "none"
  /\ UNCHANGED <<axis_len, qmatch, disk, rvars>>

\* Lines 121-126: the k-th read_data call on a coordinate file.  The centre
\* arrays r_c, th_c, ph_c are read and never used.
ReadCoord(found) ==
  /\ pc = "read_coords"
  /\ IF ~found
     THEN Raise("IOError")
     ELSE LET r == read_data(CoordData(CoordLen(k)), None, TRUE, Some(nghost))
          IN  /\ r_e' = IF k = 1 THEN r.val ELSE r_e
              /\ th_e' = IF k = 2 THEN r.val ELSE th_e
              /\ ph_e' = IF k = 3 THEN r.val ELSE ph_e
              /\ pc' = IF k = Len(CoordFiles) THEN "read_quant" ELSE pc
              /\ k' = IF k = Len(CoordFiles) THEN 1 ELSE k + 1
              /\ UNCHANGED <<axis_len, qmatch, grid_format, rho, file, disk, calls, err,
                             rvars>>

\* Lines 142-148: the k-th read_data call on a quantity file.  Only rho is
\* written to the grid: the velocity and field arrays (lines 156-164) reach no
\* write2grid call.
ReadQuant(found) ==
  /\ pc = "read_quant"
  /\ IF ~found
     THEN Raise("IOError")
     ELSE LET r == read_data(QuantData(QuantLen), shape, TRUE, Some(nghost))
          IN  IF r.err # "none"
              THEN Raise(r.err)
              ELSE /\ rho' = IF k = 1 THEN r.val ELSE rho
                   /\ pc' = IF k = Len(QuantFiles) THEN "open" ELSE pc
                   /\ k' = IF k = Len(QuantFiles) THEN 0 ELSE k + 1
                   /\ UNCHANGED <<axis_len, qmatch, grid_format, r_e, th_e, ph_e,
                                  file, disk, calls, err, rvars>>

\* seq[i] with Python's indexing: a negative i counts from the end.
Index(seq, i) ==
  LET j == IF i < 0 THEN i + Len(seq) ELSE i
  IN  IF j < 0 \/ j >= Len(seq)
      THEN [err |-> "IndexError", val |-> 0]
      ELSE [err |-> "none", val |-> seq[j + 1]]

\* A plausible slip: every format that is not 'binary' taken for 'ascii'.
OpenModeLax(fmt) == IF fmt = "binary" THEN "wb" ELSE "w"

\* Lines 174-183: the mode the output is opened in, "invalid" when the
\* format is neither 'binary' nor 'ascii'.
OpenMode(fmt) ==
  CASE fmt = "binary" -> "wb"
    [] fmt = "ascii" -> "w"
    [] OTHER -> "invalid"

\* The output file of a format: output_grid + ".dat" or output_grid + ".txt".
Ext(fmt) == IF fmt = "binary" THEN "dat" ELSE "txt"

\* Lines 174-183: open the output file, truncating it, or raise ValueError.
OpenOutput ==
  /\ pc = "open"
  /\ IF OpenMode(grid_format) = "invalid"
     THEN Raise("ValueError(grid_format)")
     ELSE /\ file' = "open"
          /\ disk' = [disk EXCEPT ![Ext(grid_format)] =
                        [exists |-> TRUE, data |-> << >>, sealed |-> FALSE]]
          /\ pc' = "header"
          /\ UNCHANGED <<axis_len, qmatch, grid_format, k, r_e, th_e, ph_e, rho,
                         calls, err, rvars>>

\* The write2grid calls cs are made in order on the open file; the first that
\* raises ends the run, else zeus2polaris moves on to position <<p, j>>.
Emit(cs, p, j) ==
  LET w == write_all(cs, [err |-> "none", out |-> << >>, calls |-> << >>])
  IN  /\ disk' = [disk EXCEPT ![Ext(grid_format)].data = @ \o w.out]
      /\ calls' = calls \o w.calls
      /\ pc' = IF w.err # "none" THEN "failed" ELSE p
      /\ k' = IF w.err # "none" THEN k ELSE j
      /\ err' = w.err
      /\ UNCHANGED <<axis_len, qmatch, grid_format, r_e, th_e, ph_e, rho, file,
                     rvars>>

\* Lines 190-194: the grid ID, the number of quantities, the quantity IDs.
HeaderCalls ==
  <<WCall(190, grid_format, "H", PyInt(id_grid), TRUE),
    WCall(191, grid_format, "H", PyInt(Len(IDs)), TRUE)>>
  \o [q \in 1..Len(IDs) |-> WCall(194, grid_format, "H", PyInt(IDs[q]), TRUE)]

WriteHeader ==
  /\ pc = "header"
  /\ Emit(HeaderCalls, "geometry", 0)

\* Line 198: r_e[0]
InnerRadius == Index(r_e, 0)

\* A plausible slip: the last de-ghosted edge taken for the outer radius.
OuterRadiusDeghosted(raw) == Index(raw, 0 - nghost - 1)

\* Line 199: read_data('z_x1ap')[-nghost], on the array as read
OuterRadius(raw) == Index(raw, 0 - nghost)

\* Line 198: the first field of the geometry record.
WriteInnerRadius ==
  /\ pc = "geometry"
  /\ IF InnerRadius.err # "none"
     THEN Raise(InnerRadius.err)
     ELSE Emit(<<WCall(198, grid_format, "d", PyFloat(InnerRadius.val), FALSE)>>,
               "geometry2", 0)

\* Lines 200-207: the axis counts and the shape parameters.
CountCalls ==
  <<WCall(200, grid_format, "H", PyInt(n_r), FALSE),
    WCall(201, grid_format, "H", PyInt(n_ph), FALSE),
    WCall(202, grid_format, "H", PyInt(n_th), TRUE),
    WCall(205, grid_format, "d", PyInt(f_r), TRUE),
    WCall(206, grid_format, "d", PyInt(f_ph), TRUE),
    WCall(207, grid_format, "d", PyInt(f_th), TRUE)>>

\* Lines 199-207: z_x1ap is read again, untrimmed, for the second field; the
\* rest of the geometry record follows.
WriteGeometry(found) ==
  /\ pc = "geometry2"
  /\ IF ~found
     THEN Raise("IOError")
     ELSE LET raw == read_data(CoordData(CoordLen(1)), None, TRUE, None).val
              o == OuterRadius(raw)
          IN  IF o.err # "none"
              THEN Raise(o.err)
              ELSE Emit(<<WCall(199, grid_format, "d", PyFloat(o.val), TRUE)>>
                          \o CountCalls,
                        "r_edges", 0)

\* A plausible slip: the whole edge sequence written, its first edge included.
EdgeTailWhole(e) == e

\* e[1:]
EdgeTail(e) == PySlice(e, 1, Len(e))

\* A plausible slip: the theta loop placed before the phi loop.
EdgeLoopSwapped(p) ==
  CASE p = "r_edges" -> [seq |-> EdgeTail(r_e), line |-> 211, nl |-> 213, next |-> "th_edges"]
    [] p = "th_edges" -> [seq |-> EdgeTail(th_e), line |-> 221, nl |-> 223, next |-> "ph_edges"]
    [] p = "ph_edges" -> [seq |-> EdgeTail(ph_e), line |-> 216, nl |-> 218, next |-> "cells"]

\* Lines 210-223: the three edge loops, each with the lines of its write2grid
\* call and of its ascii newline, and the position that follows it.
EdgeLoop(p) ==
  CASE p = "r_edges" -> [seq |-> EdgeTail(r_e), line |-> 211, nl |-> 213, next |-> "ph_edges"]
    [] p = "ph_edges" -> [seq |-> EdgeTail(ph_e), line |-> 216, nl |-> 218, next |-> "th_edges"]
    [] p = "th_edges" -> [seq |-> EdgeTail(th_e), line |-> 221, nl |-> 223, next |-> "cells"]

EdgePhases == {"r_edges", "ph_edges", "th_edges"}

\* Lines 210-211, 215-216, 220-221: one iteration of an edge loop.
WriteEdge ==
  /\ pc \in EdgePhases
  /\ k < Len(EdgeLoop(pc).seq)
  /\ Emit(<<WCall(EdgeLoop(pc).line, grid_format, "d",
                  PyFloat(EdgeLoop(pc).seq[k + 1]), FALSE)>>, pc, k + 1)

\* Lines 212-213, 217-218, 222-223: the loop is over; ascii ends the line.
EndEdges ==
  /\ pc \in EdgePhases
  /\ k = Len(EdgeLoop(pc).seq)
  /\ Emit(IF grid_format = "ascii"
          THEN <<WCall(EdgeLoop(pc).nl, "ascii", "d", PyEmptyStr, TRUE)>>
          ELSE << >>,
          EdgeLoop(pc).next, 0)

\* A plausible slip: the loop stops one cell early.
CellRangeShort == 0..(n_cells - 2)

\* Line 226: range(n_cells)
CellRange == 0..(n_cells - 1)

\* Lines 226-229: one iteration of the cell loop.
WriteCell ==
  /\ pc = "cells"
  /\ k \in CellRange
  /\ LET x == Index(rho, k)
     IN  IF x.err # "none"
         THEN Raise(x.err)
         ELSE Emit(<<WCall(228, grid_format, "d", PyFloat(x.val), FALSE),
                     WCall(229, grid_format, "d", PyFloat(x.val \div 100), TRUE)>>,
                   pc, k + 1)

\* Lines 232-233: the loop is over; the central cell is written.
WriteSentinel ==
  /\ pc = "cells"
  /\ k \notin CellRange
  /\ Emit(<<WCall(232, grid_format, "d", PyInt(0), FALSE),
            WCall(233, grid_format, "d", PyInt(0), TRUE)>>, "close", 0)

\* Line 235: file.close()
Close ==
  /\ pc = "close"
  /\ file' = "closed"
  /\ disk' = [disk EXCEPT ![Ext(grid_format)].sealed = TRUE]
  /\ pc' = "done"
  /\ UNCHANGED <<axis_len, qmatch, grid_format, k, r_e, th_e, ph_e, rho, calls, err,
                 rvars>>

Next ==
  \/ \E fmt \in Formats : Call(fmt)
  \/ \E found \in BOOLEAN : ReadCoord(found)
  \/ \E found \in BOOLEAN : ReadQuant(found)
  \/ OpenOutput
  \/ WriteHeader
  \/ WriteInnerRadius
  \/ \E found \in BOOLEAN : WriteGeometry(found)
  \/ WriteEdge
  \/ EndEdges
  \/ WriteCell
  \/ WriteSentinel
  \/ Close

(* ------------------------------------------- read_data on synthetic buffers *)

\* A synthetic buffer of n doubles, each value naming its own position.
Ramp(n, a, b) == [p \in 1..n |-> a * (p - 1) + b]

Margins == 0..MaxM

\* The padded shapes tried with margin m: every axis longer than 2m.
Shapes(m) == [1..3 -> (2 * m + 1)..(2 * m + MaxInner)]

RInit ==
  /\ arg_trim \in {Some(m) : m \in Margins}
  /\ arg_unshape \in BOOLEAN
  /\ \E ab \in {<<1, 0>>, <<3, 7>>} :
       \/ /\ arg_shape = None
          /\ \E n \in 0..MaxN : buf = Ramp(n, ab[1], ab[2])
       \/ /\ arg_shape \in Shapes(arg_trim[1])
          /\ buf = Ramp(Prod3(arg_shape), ab[1], ab[2])
  /\ result = << >>
  /\ rpc = "call"

\* read_data(filename, shape, unshape, trim_ghosts) on a file holding buf.
ReadData ==
  /\ rpc = "call"
  /\ result' = read_data(buf, arg_shape, arg_unshape, arg_trim).val
  /\ rpc' = "returned"
  /\ UNCHANGED <<buf, arg_shape, arg_unshape, arg_trim, zvars>>

RIdle ==
  /\ buf = << >> /\ arg_shape = None /\ arg_unshape = TRUE /\ arg_trim = None
  /\ result = << >> /\ rpc = "idle"

ZIdle ==
  /\ axis_len = <<0, 0, 0>> /\ qmatch = TRUE /\ grid_format = "none"
  /\ pc = "off" /\ k = 0
  /\ r_e = << >> /\ th_e = << >> /\ ph_e = << >> /\ rho = << >>
  /\ file = "none" /\ disk = [dat |-> NoFile, txt |-> NoFile]
  /\ calls = << >> /\ err = "none"

(* --------------------------------------------------------- specifications *)

Init == ZInit /\ RIdle
Spec == Init /\ [][Next]_vars

InitRead == RInit /\ ZIdle
NextRead == ReadData
SpecRead == InitRead /\ [][NextRead]_vars

(* ------------------------------------------------- reading a grid file back *)

\* The consumer's side of the format, used to state what a written file holds:
\* the inverses of struct.pack and of str, and the two layouts.

\* A decoded field: its integer part and its fraction digits without trailing
\* zeros; ip = -1 marks a field that is no number of the model's range.
Num(ip, fp) == [ip |-> ip, fp |-> fp]
NotANumber == Num(-1, << >>)

\* struct.unpack("H", b)
UnpackH(b) == Num(b[1] + 256 * b[2], << >>)

\* struct.unpack("d", b), for the patterns of integers in 0 .. 2^20-1
UnpackD(b) ==
  LET biased == b[8] * 16 + b[7] \div 16
      frac20 == (b[7] % 16) * 65536 + b[6] * 256 + b[5]
      e == biased - 1023
  IN  IF b = <<0, 0, 0, 0, 0, 0, 0, 0>>
      THEN Num(0, << >>)
      ELSE IF /\ b[1] = 0 /\ b[2] = 0 /\ b[3] = 0 /\ b[4] = 0
              /\ e >= 0 /\ e <= 20
              /\ frac20 % Pow2(20 - e) = 0
           THEN Num(Pow2(e) + frac20 \div Pow2(20 - e), << >>)
           ELSE NotANumber

\* The doubles of a byte string, eight bytes each; bytes left over are no
\* number.
UnpackDoubles(b) ==
  [q \in 1..(Len(b) \div 8) |-> UnpackD(SubSeq(b, 8 * q - 7, 8 * q))]
  \o (IF Len(b) % 8 = 0 THEN << >> ELSE <<NotANumber>>)

\* The fields of a binary grid file, by the POLARIS layout: unsigned shorts
\* for the grid ID, the number of quantities, the quantity IDs and the three
\* axis counts, doubles for everything else.
DecodeBinary(b) ==
  IF Len(b) < 4 THEN <<NotANumber>>
  ELSE LET nq == UnpackH(SubSeq(b, 3, 4)).ip
           g == 4 + 2 * nq
       IN  IF Len(b) < g + 16 + 6 THEN <<NotANumber>>
           ELSE <<UnpackH(SubSeq(b, 1, 2)), UnpackH(SubSeq(b, 3, 4))>>
                \o [q \in 1..nq |-> UnpackH(SubSeq(b, 3 + 2 * q, 4 + 2 * q))]
                \o UnpackDoubles(SubSeq(b, g + 1, g + 16))
                \o [a \in 1..3 |-> UnpackH(SubSeq(b, g + 15 + 2 * a, g + 16 + 2 * a))]
                \o UnpackDoubles(SubSeq(b, g + 23, Len(b)))

CharDigit(c) ==
  CASE c = "0" -> 0 [] c = "1" -> 1 [] c = "2" -> 2 [] c = "3" -> 3 [] c = "4" -> 4
    [] c = "5" -> 5 [] c = "6" -> 6 [] c = "7" -> 7 [] c = "8" -> 8 [] c = "9" -> 9
    [] OTHER -> -1

\* The value of a digit string, -1 when it is empty or holds another character.
RECURSIVE DigitsValue(_, _)
DigitsValue(cs, acc) ==
  IF cs = << >> THEN acc
  ELSE IF CharDigit(Head(cs)) < 0 THEN -1
  ELSE DigitsValue(Tail(cs), 10 * acc + CharDigit(Head(cs)))

RECURSIVE StripZeros(_)
StripZeros(cs) ==
  IF cs # << >> /\ cs[Len(cs)] = "0" THEN StripZeros(SubSeq(cs, 1, Len(cs) - 1)) ELSE cs

\* The number a decimal token stands for: digits, or digits "." digits.
ParseToken(tok) ==
  LET dots == {p \in 1..Len(tok) : tok[p] = "."}
  IN  IF dots = {}
      THEN IF tok = << >> THEN NotANumber ELSE Num(DigitsValue(tok, 0), << >>)
      ELSE LET d == CHOOSE p \in dots : \A q \in dots : p <= q
               ip == SubSeq(tok, 1, d - 1)
               fp == SubSeq(tok, d + 1, Len(tok))
           IN  IF ip = << >> \/ fp = << >> \/ Cardinality(dots) > 1
                  \/ DigitsValue(fp, 0) < 0
               THEN NotANumber
               ELSE Num(DigitsValue(ip, 0), StripZeros(fp))

IsSpace(c) == c \in {" ", "\n"}

\* The whitespace-separated tokens of a text: each starts at a character that
\* is no whitespace and follows whitespace (or starts the text), and runs up to
\* the next whitespace (or the end).
Tokens(cs) ==
  LET starts == {p \in 1..Len(cs) : ~IsSpace(cs[p]) /\ (p = 1 \/ IsSpace(cs[p - 1]))}
      ends == {p \in 1..Len(cs) : ~IsSpace(cs[p]) /\ (p = Len(cs) \/ IsSpace(cs[p + 1]))}
      nth(S, i) == CHOOSE p \in S : Cardinality({q \in S : q <= p}) = i
  IN  [i \in 1..Cardinality(starts) |-> SubSeq(cs, nth(starts, i), nth(ends, i))]

\* The fields of an ascii grid file.
DecodeAscii(cs) ==
  LET t == Tokens(cs)
  IN  [p \in 1..Len(t) |-> ParseToken(t[p])]

(* ----------------------------------------------------------------- claims *)

Terminal == pc \in {"done", "failed"}

\* The source lines of the write2grid calls made so far, in order.
Lines == [p \in 1..Len(calls) |-> calls[p].line]

\* The calls made on the given source lines, in order.
CallsAt(ls) == SelectSeq(calls, LAMBDA c : c.line \in ls)

\* The values handed to the calls made on the given source lines, in order.
ValuesAt(ls) == [p \in 1..Len(CallsAt(ls)) |-> CallsAt(ls)[p].var.v]

Rep(x, n) == [p \in 1..n |-> x]

\* The phase of the output a write2grid call belongs to, by its source line:
\* 1 header, 2 geometry record, 3 r-edges, 4 phi-edges, 5 theta-edges,
\* 6 cell records, 7 sentinel.
PhaseOf(line) ==
  CASE line \in {190, 191, 194} -> 1
    [] line \in {198, 199, 200, 201, 202, 205, 206, 207} -> 2
    [] line \in {211, 213} -> 3
    [] line \in {216, 218} -> 4
    [] line \in {221, 223} -> 5
    [] line \in {228, 229} -> 6
    [] line \in {232, 233} -> 7

\* The calls of a completed run on a grid of the given axis counts: the
\* sequence of their source lines.
RunLines(nr, nph, nth, fmt) ==
  <<190, 191>> \o Rep(194, Len(IDs))
  \o <<198, 199, 200, 201, 202, 205, 206, 207>>
  \o Rep(211, nr - 1) \o (IF fmt = "ascii" THEN <<213>> ELSE << >>)
  \o Rep(216, nph - 1) \o (IF fmt = "ascii" THEN <<218>> ELSE << >>)
  \o Rep(221, nth - 1) \o (IF fmt = "ascii" THEN <<223>> ELSE << >>)
  \o [p \in 1..(2 * nr * nph * nth) |-> IF p % 2 = 1 THEN 228 ELSE 229]
  \o <<232, 233>>

\* C1: in every run, the writes made so far follow the phases header, geometry
\* record, r-edges, phi-edges, theta-edges, cell records, sentinel without ever
\* going back; the file is closed only at the very end; and a completed run,
\* binary or ascii, has made exactly the calls of a full grid file in that
\* order (header 30, count, IDs; then inner radius, outer radius, the counts
\* in r, phi, theta order and three zero exponents; then the rest), the
\* sentinel's second value being the last thing written.
C1_WriteOrder ==
  /\ \A p \in 1..(Len(calls) - 1) : PhaseOf(calls[p].line) <= PhaseOf(calls[p + 1].line)
  /\ file = "closed" => pc = "done"
  /\ pc = "done" =>
       /\ grid_format \in {"binary", "ascii"}
       /\ file = "closed"
       /\ Lines = RunLines(Len(r_e), Len(ph_e), Len(th_e), grid_format)
       /\ ValuesAt({190, 191, 194}) = <<30, Len(IDs)>> \o IDs
       /\ ValuesAt({200, 201, 202}) = <<Len(r_e), Len(ph_e), Len(th_e)>>
       /\ ValuesAt({205, 206, 207}) = <<0, 0, 0>>
       /\ calls[Len(calls)].line = 233

C1_Witness ==
  /\ pc = "done"
  /\ grid_format = "ascii"
  /\ Len(r_e) = 2 /\ Len(ph_e) = 1 /\ Len(th_e) = 2

\* C2: no run ends, by returning or by raising, with the output handle open.
C2_HandleClosedAtEnd == Terminal => file # "open"

\* C3: a run with a grid_format that is neither 'binary' nor 'ascii' ends with
\* the invalid-format error, having opened no output file and made no
\* write2grid call.
C3_InvalidFormat ==
  (Terminal /\ grid_format \notin {"binary", "ascii"}) =>
     /\ err = "ValueError(grid_format)"
     /\ file = "none"
     /\ calls = << >>

\* C3, amended: a run with such a grid_format never opens an output file and
\* never calls write2grid, it never completes, and it ends with the
\* invalid-format error once all thirteen reads have returned (k = 0 then);
\* a read that raises before that ends it with the read's own error.
C3_InvalidFormatAfterReads ==
  grid_format \notin {"binary", "ascii"} =>
     /\ file = "none"
     /\ calls = << >>
     /\ pc \in {"idle", "read_coords", "read_quant", "open", "failed"}
     /\ pc = "failed" =>
          IF k = 0
          THEN err = "ValueError(grid_format)"
          ELSE err \in {"IOError", "ValueError(reshape)"}

C3_Witness ==
  /\ pc = "failed"
  /\ grid_format = "hdf5"
  /\ err = "ValueError(grid_format)"

\* C4: whenever a read_data call does not find its file, the run ends with the
\* not-found error with the output file not opened and nothing written.
C4_NoOutputOnNotFound ==
  (pc = "failed" /\ err = "IOError") => (file = "none" /\ calls = << >>)

\* C5: a completed run has written one record per cell of the grid, the c-th
\* holding element c of the de-ghosted density (which has exactly
\* n_r * n_th * n_ph elements), and after them exactly one record of zeros:
\* n_r * n_th * n_ph + 1 records in all.
C5_CellRecords ==
  pc = "done" =>
    LET n == Len(r_e) * Len(th_e) * Len(ph_e)
        recs == CallsAt({228, 229, 232, 233})
    IN  /\ Len(rho) = n
        /\ Len(recs) = 2 * (n + 1)
        /\ Len(SelectSeq(recs, LAMBDA c : c.endl)) = n + 1
        /\ \A c \in 1..n :
             /\ recs[2 * c - 1].line = 228 /\ recs[2 * c - 1].var.v = rho[c]
             /\ recs[2 * c].line = 229 /\ recs[2 * c].endl
        /\ recs[2 * n + 1].line = 232 /\ recs[2 * n + 1].var.v = 0
        /\ recs[2 * n + 2].line = 233 /\ recs[2 * n + 2].var.v = 0

C5_Witness ==
  /\ pc = "done"
  /\ Len(r_e) = 2 /\ Len(th_e) = 1 /\ Len(ph_e) = 2

\* C6: read_data with a margin m and no shape, on n > 2m values, returns the
\* n - 2m values [m : n-m] of the buffer in order.
C6_Trim1D ==
  (rpc = "returned" /\ arg_shape = None /\ Len(buf) > 2 * arg_trim[1]) =>
     /\ Len(result) = Len(buf) - 2 * arg_trim[1]
     /\ result = SubSeq(buf, arg_trim[1] + 1, Len(buf) - arg_trim[1])

\* The fields written on lines 198 and 199, once both are.
RadiiWritten == Len(CallsAt({199})) = 1

\* C7: the inner radius written is the first edge of the still-ghosted
\* z_x1ap and the outer radius written is the last de-ghosted r-edge.
C7_RadiiAsClaimed ==
  RadiiWritten =>
     /\ ValuesAt({198})[1] = CoordData(axis_len[1])[1]
     /\ ValuesAt({199})[1] = r_e[Len(r_e)]

\* C7, amended: the inner radius written is the first de-ghosted r-edge
\* (element nghost of z_x1ap, counting from 0) and the outer radius written is
\* element -nghost of the still-ghosted z_x1ap, the edge that follows the last
\* de-ghosted r-edge.
C7_RadiiAsWritten ==
  RadiiWritten =>
     LET raw == CoordData(axis_len[1])
     IN  /\ ValuesAt({198})[1] = r_e[1]
         /\ ValuesAt({198})[1] = raw[nghost + 1]
         /\ ValuesAt({199})[1] = raw[Len(raw) - nghost + 1]
         /\ raw[Len(raw) - nghost] = r_e[Len(r_e)]

C7_Witness ==
  /\ pc = "done"
  /\ Len(r_e) = 2
  /\ RadiiWritten

\* A grid file a completed run has written and closed.
Complete(f) == f.exists /\ f.sealed

C9_Reorder3D ==
  (/\ rpc = "returned" /\ arg_shape # None /\ arg_unshape
   /\ arg_trim[1] >= 1
   /\ \A a \in 1..3 : arg_shape[a] > 2 * arg_trim[1]) =>
     LET m == arg_trim[1]
         S0 == arg_shape[1]
         S1 == arg_shape[2]
         S2 == arg_shape[3]
     IN  /\ Len(result) = (S0 - 2 * m) * (S1 - 2 * m) * (S2 - 2 * m)
         /\ \A i \in 0..(S0 - 2 * m - 1), j \in 0..(S1 - 2 * m - 1), kk \in 0..(S2 - 2 * m - 1) :
              result[1 + (i * (S2 - 2 * m) + kk) * (S1 - 2 * m) + j]
                = buf[1 + (i + m) + (j + m) * S0 + (kk + m) * S0 * S1]

C9_Witness ==
  /\ rpc = "returned" /\ arg_unshape
  /\ arg_trim = Some(2)
  /\ arg_shape = <<6, 5, 6>>
  /\ Len(result) = 4

\* C10: in a completed run each axis's edge sequence holds one value less than
\* the count written for that axis (the count is the length of the de-ghosted
\* edge sequence, the values are that sequence without its first element), and
\* the sequences come in the order of the counts: r, phi, theta.
C10_EdgeCounts ==
  pc = "done" =>
     /\ ValuesAt({200, 201, 202}) = <<Len(r_e), Len(ph_e), Len(th_e)>>
     /\ Len(ValuesAt({211})) = ValuesAt({200})[1] - 1
     /\ Len(ValuesAt({216})) = ValuesAt({201})[1] - 1
     /\ Len(ValuesAt({221})) = ValuesAt({202})[1] - 1
     /\ ValuesAt({211}) = Tail(r_e)
     /\ ValuesAt({216}) = Tail(ph_e)
     /\ ValuesAt({221}) = Tail(th_e)
     /\ [p \in 1..Len(CallsAt({200, 201, 202})) |-> CallsAt({200, 201, 202})[p].line]
          = <<200, 201, 202>>
     /\ [p \in 1..Len(CallsAt({211, 216, 221})) |-> CallsAt({211, 216, 221})[p].line]
          = Rep(211, Len(r_e) - 1) \o Rep(216, Len(ph_e) - 1) \o Rep(221, Len(th_e) - 1)

C10_Witness ==
  /\ pc = "done"
  /\ Len(r_e) = 2 /\ Len(ph_e) = 2 /\ Len(th_e) = 1

====
